---- MODULE Spec2Model ----
(***************************************************************************)
(* fxdownload: resolve, fetch and install Firefox builds.                  *)
(*                                                                         *)
(* Two programs live in the repository:                                    *)
(*   src/fetch.js  - redirect strategy, one unit of work per requested     *)
(*                   channel, all units started at once, joined by P.all;  *)
(*   src/index.js  - listing strategy, one channel per invocation          *)
(*                   (lines 1-170), followed in the same file by its       *)
(*                   release-only variant (lines 172-320).                 *)
(* A behaviour of the model is one invocation of one of them: Init picks   *)
(* the program and its command line, the actions are the callbacks that    *)
(* node's event loop runs, one whole callback per step.                    *)
(***************************************************************************)
EXTENDS Integers, Sequences, FiniteSets, TLC

VARIABLES
    prog,       \* which program was started: "fetch", "index" or "release"
    channels,   \* program.channel: the requested channels, one unit each
    platform,   \* program.platform
    locale,     \* program.locale
    unit,       \* per unit: position in its callback chain and what it holds
    disk,       \* install targets on the file system: path -> contents
    aggregate,  \* what the P.all(...).then/.catch chain has printed
    proc        \* the node process: "running", "crashed" or "exited"

vars == <<prog, channels, platform, locale, unit, disk, aggregate, proc>>

----------------------------------------------------------------------------
(* Bounds of the model.                                                    *)

MaxChannels == 2    \* longest --channel list explored
MaxListing == 2     \* most anchors in a directory listing

----------------------------------------------------------------------------
(* Program constants.                                                      *)

Redirect == 302     \* the only resolver status start() accepts
StatusOK == 200     \* the only listing status run() accepts

StatusCodes == {StatusOK, Redirect, 404}

Platforms == {"linux-x86_64", "linux-i686", "mac", "win32", "win64"}
KnownChannels == {"release", "beta", "esr", "aurora", "nightly"}

\* --channel of fetch.js is split on commas and not validated, so any word
\* can arrive; "bogus" stands for a word outside the catalog.
ChannelPool == {"release", "nightly", "bogus"}
Locales == {"en-US"}

InstallRoot == "firefox-channels"

----------------------------------------------------------------------------
(* Catalog of fetch.js.                                                    *)

\* channelMap whose fallback is the word itself, without 'firefox-'
channelMap_noPrefix(channel, file) ==
    CASE channel = "esr"     -> IF file THEN <<"latest-esr">> ELSE <<"firefox-esr-latest">>
      [] channel = "release" -> IF file THEN <<"latest">> ELSE <<"firefox-latest">>
      [] channel = "beta"    -> IF file THEN <<"latest-beta">> ELSE <<"firefox-beta-latest">>
      [] channel = "aurora"  -> IF file THEN <<"latest-aurora">> ELSE <<"firefox-aurora-latest">>
      [] channel = "nightly" -> IF file THEN <<"latest-nightly">> ELSE <<"firefox-nightly-latest">>
      [] OTHER               -> <<channel>>

\* channelMap(channel, file): a path is a tuple of segments, and the
\* concatenation 'firefox-' + channel is the pair of its two parts.
channelMap(channel, file) ==
    CASE channel = "esr"     -> IF file THEN <<"latest-esr">> ELSE <<"firefox-esr-latest">>
      [] channel = "release" -> IF file THEN <<"latest">> ELSE <<"firefox-latest">>
      [] channel = "beta"    -> IF file THEN <<"latest-beta">> ELSE <<"firefox-beta-latest">>
      [] channel = "aurora"  -> IF file THEN <<"latest-aurora">> ELSE <<"firefox-aurora-latest">>
      [] channel = "nightly" -> IF file THEN <<"latest-nightly">> ELSE <<"firefox-nightly-latest">>
      [] OTHER               -> <<"firefox-", channel>>

platformMap(p) ==
    CASE p = "linux-x86_64" -> "linux64"
      [] p = "linux-i686"   -> "linux"
      [] p = "mac"          -> "osx"
      [] p = "win32"        -> "win"
      [] p = "win64"        -> "win64"

\* program.platform.match(/^linux/i)
isLinux(p) == p \in {"linux-x86_64", "linux-i686"}

\* installDir(channel) of fetch.js: path.join(installDir, channelMap(channel, true), locale)
installDir(channel) == <<InstallRoot>> \o channelMap(channel, TRUE) \o <<locale>>

\* getDownloadUrl(channel, locale, platform)
getDownloadUrl(channel, loc, os) ==
    [product |-> channelMap(channel, FALSE), os |-> os, lang |-> loc]

----------------------------------------------------------------------------
(* Strings.  A file name is the tuple of its characters, so that a regular *)
(* expression anchored at the end is a suffix test, String.match of a      *)
(* plain word is a substring test, and Array.sort is the order of the      *)
(* character codes.                                                        *)

\* The characters that occur, in ascending code order.
Alphabet ==
    <<"-", ".", "/", "0", "1", "2", "3", "4", "5", "6", "8", "9", "S", "U", "_",
      "a", "b", "c", "d", "e", "f", "g", "i", "k", "l", "m", "n", "o", "r", "s",
      "t", "u", "w", "x", "z">>

Code(c) == CHOOSE i \in 1..Len(Alphabet) : Alphabet[i] = c

\* a < b as JavaScript compares two strings
StrLess(a, b) ==
    \/ /\ Len(a) < Len(b)
       /\ \A i \in 1..Len(a) : a[i] = b[i]
    \/ \E k \in 1..Len(a) :
          /\ k <= Len(b)
          /\ \A i \in 1..(k - 1) : a[i] = b[i]
          /\ Code(a[k]) < Code(b[k])

EndsWith(s, suffix) ==
    /\ Len(suffix) <= Len(s)
    /\ SubSeq(s, Len(s) - Len(suffix) + 1, Len(s)) = suffix

Contains(s, word) ==
    \E i \in 1..(Len(s) - Len(word) + 1) : SubSeq(s, i, i + Len(word) - 1) = word

\* Array.prototype.sort(): insertion into an ascending sequence
RECURSIVE SortInsert(_, _)
SortInsert(sorted, x) ==
    IF sorted = <<>> THEN <<x>>
    ELSE IF StrLess(x, Head(sorted)) THEN <<x>> \o sorted
    ELSE <<Head(sorted)>> \o SortInsert(Tail(sorted), x)

RECURSIVE Sort(_)
Sort(arr) == IF arr = <<>> THEN <<>> ELSE SortInsert(Sort(Tail(arr)), Head(arr))

\* Array.prototype.pop() on a possibly empty array
Undefined == <<"undefined">>
Pop(arr) == IF arr = <<>> THEN Undefined ELSE arr[Len(arr)]

Firefox == <<"f", "i", "r", "e", "f", "o", "x", "-">>
V49 == <<"4", "9", ".", "0", "a", "1">>
V50 == <<"5", "0", ".", "0", "a", "1">>
Dot == <<".">>
EnUS == <<"e", "n", "-", "U", "S">>
Sdk == <<"s", "d", "k">>
TarBz2 == <<".", "t", "a", "r", ".", "b", "z", "2">>
Dmg == <<".", "d", "m", "g">>
Exe == <<".", "e", "x", "e">>
Asc == <<".", "a", "s", "c">>

PlatformChars(p) ==
    CASE p = "linux-x86_64" -> <<"l", "i", "n", "u", "x", "-", "x", "8", "6", "_", "6", "4">>
      [] p = "linux-i686"   -> <<"l", "i", "n", "u", "x", "-", "i", "6", "8", "6">>
      [] p = "mac"          -> <<"m", "a", "c">>
      [] p = "win32"        -> <<"w", "i", "n", "3", "2">>
      [] p = "win64"        -> <<"w", "i", "n", "6", "4">>

LocaleChars(l) == CASE l = "en-US" -> EnUS

\* The anchors a listing page can hold.
NightlyNew == Firefox \o V50 \o Dot \o EnUS \o Dot \o PlatformChars("linux-x86_64") \o TarBz2
NightlyOld == Firefox \o V49 \o Dot \o EnUS \o Dot \o PlatformChars("linux-x86_64") \o TarBz2
NightlySdk == Firefox \o V50 \o Dot \o EnUS \o Dot \o PlatformChars("linux-x86_64")
                \o Dot \o Sdk \o TarBz2
NightlyMac == Firefox \o V50 \o Dot \o EnUS \o Dot \o PlatformChars("mac") \o Dmg
ReleaseTar == Firefox \o V50 \o TarBz2
ReleaseSig == Firefox \o V50 \o TarBz2 \o Asc
ReleaseExe == Firefox \o V50 \o Exe
ParentDir == <<".", ".", "/">>

Hrefs == {NightlyNew, NightlyOld, NightlySdk, NightlyMac,
          ReleaseTar, ReleaseSig, ReleaseExe, ParentDir}

\* What cheerio's $('td a[href]') yields for a listing body: the href of
\* every anchor, in document order (the same href may occur twice).
Listings == UNION {[1..n -> Hrefs] : n \in 0..MaxListing}

----------------------------------------------------------------------------
(* Catalog and Filename Selector of index.js.                              *)

channelMapListing(channel) ==
    CASE channel = "esr"     -> <<"latest-esr">>
      [] channel = "release" -> <<"latest">>
      [] channel = "beta"    -> <<"latest-beta">>
      [] channel = "aurora"  -> <<"latest-mozilla-aurora">>
      [] channel = "nightly" -> <<"latest-trunk">>

\* extensionMap[platform]: the word that /\.ext$/ anchors at the end
extensionMap(p) ==
    CASE p = "linux-x86_64" -> TarBz2
      [] p = "linux-i686"   -> TarBz2
      [] p = "mac"          -> Dmg
      [] p = "win32"        -> Exe
      [] p = "win64"        -> Exe

isReleasePath(channel) == channel \notin {"nightly", "aurora"}

\* The array parseFilename builds first: hrefs passing fileExtension.test, sorted
available(body, p) ==
    Sort(SelectSeq(body, LAMBDA href : EndsWith(href, extensionMap(p))))

\* matching without its test for 'sdk'
matching_keepsSdk(avail, p, l) ==
    SelectSeq(avail, LAMBDA href :
        /\ Contains(href, PlatformChars(p))
        /\ Contains(href, LocaleChars(l)))

\* The last filter of parseFilename, for nightly and aurora
matching(avail, p, l) ==
    SelectSeq(avail, LAMBDA href :
        /\ Contains(href, PlatformChars(p))
        /\ Contains(href, LocaleChars(l))
        /\ ~Contains(href, Sdk))

\* parseFilename(body): what it throws, or what it returns
parseFilename(body, channel, p, l) ==
    LET avail == available(body, p)
        isReleaseBuild == isReleasePath(channel)
    IN  IF Len(avail) > 1 /\ isReleaseBuild
            THEN [threw |-> "Multiple possible downloads", value |-> Undefined]
        ELSE IF Len(avail) = 0
            THEN [threw |-> "No download available", value |-> Undefined]
        ELSE IF isReleaseBuild
            THEN [threw |-> "", value |-> Pop(avail)]
        ELSE [threw |-> "", value |-> Pop(Sort(matching(avail, p, l)))]

\* targetDir of oncomplete: path.join(installDir, channelMap[channel], locale)
targetDir(channel) == <<InstallRoot>> \o channelMapListing(channel) \o <<locale>>

----------------------------------------------------------------------------
(* Catalog and Filename Selector of the release-only variant of index.js.  *)

ReleaseChannels == {"release", "beta", "esr"}

\* program.channel = channelMap[program.channel]
channelMapRelease(channel) ==
    CASE channel = "release" -> <<"latest">>
      [] channel = "beta"    -> <<"latest-beta">>
      [] channel = "esr"     -> <<"latest-esr">>

\* extensionMap[platform]: here a plain string, looked for with indexOf
extensionMapRelease(p) ==
    CASE p = "linux-x86_64" -> TarBz2
      [] p = "linux-i686"   -> TarBz2
      [] p = "mac"          -> Dmg
      [] p = "win32"        -> Exe
      [] p = "win64"        -> Exe

\* elt.attribs.href.indexOf(fileExtension) !== -1, then map and sort
availableRelease(body, p) ==
    Sort(SelectSeq(body, LAMBDA href : Contains(href, extensionMapRelease(p))))

\* parseFilename(body) of the variant
parseFilenameRelease(body, p) ==
    LET avail == availableRelease(body, p)
    IN  IF Len(avail) > 1
            THEN [threw |-> "Multiple possible downloads", value |-> Undefined]
        ELSE IF Len(avail) = 0
            THEN [threw |-> "No download available", value |-> Undefined]
        ELSE [threw |-> "", value |-> Pop(avail)]

\* targetDir of the variant's oncomplete
targetDirRelease(channel) == <<InstallRoot>> \o channelMapRelease(channel) \o <<locale>>

\* The programs that follow the listing strategy.
ListingProgs == {"index", "release"}

----------------------------------------------------------------------------
(* State of a run.                                                         *)

Units == 1..Len(channels)

\* A unit when its first request has been issued and nothing has come back.
\*   pc       where its callback chain stands: "resolving" (resolver or
\*            listing request in flight), "downloading", "extracting",
\*            "done" (no callback left), "threw" (a callback threw)
\*   promise  dfd of start(): "pending", "resolved", "rejected"
\*   printed  what the unit wrote with console.log / console.error
\*   tmp      the temporary download file: "none", "exists", "moved", "removed"
\*   written  every byte of the response is in the temporary file
\*   tmpDir   the staging directory of index.js
\*   log      the file-system steps the unit has taken, in order
\*   reqs     the artifact requests the unit has issued
\*   fail     the failure the unit met, "" when none
\*   listing  the listing body the selector was given
\*   filename the resolved file name
\*   first    the resolver or listing request issued when the unit started
\*   found    "old" when rimraf removed the install of an earlier run
NewUnit(url) ==
    [pc |-> "resolving", promise |-> "pending", printed |-> {}, tmp |-> "none",
     written |-> FALSE, tmpDir |-> "none", log |-> <<>>, reqs |-> <<>>,
     fail |-> "", listing |-> <<>>, filename |-> <<>>, first |-> url,
     found |-> "none"]

\* Contents of an install target.
\*   st     "absent", "old" (what an earlier run installed), "empty",
\*          "extracting", "partial", "full", "mixed" (two units unpacked
\*          into it), "file" (the artifact itself, not unpacked)
\*   by     the unit that touched it last, 0 when none has
\*   name   the artifact it holds
\*   stale  files of an earlier install are still in it
Absent == [st |-> "absent", by |-> 0, name |-> <<>>, stale |-> FALSE]
Old == [st |-> "old", by |-> 0, name |-> <<>>, stale |-> TRUE]

\* What rimraf.sync(dir) removes: the install of an earlier run, or not.
foundAt(c) == IF c.stale THEN "old" ELSE "none"

\* rimraf that removes nothing
rimraf_keeps(c, u) == c

\* rimraf.sync(dir) by unit u
rimraf(c, u) == [st |-> "absent", by |-> u, name |-> <<>>, stale |-> FALSE]

\* mkdirp.sync(dir): makes the directory unless it is there
mkdirp(c, u) == IF c.st = "absent" THEN [c EXCEPT !.st = "empty", !.by = u] ELSE c

\* What is at dir once unit u has put the artifact `name` there as `st`
\* (renamed into it, being unpacked into it, unpacked, renamed onto it).
put(c, st, u, name) == [c EXCEPT !.st = st, !.by = u, !.name = name]

\* The install target of a unit.
TargetOf(u) ==
    CASE prog = "fetch"   -> installDir(channels[u])
      [] prog = "index"   -> targetDir(channels[u])
      [] prog = "release" -> targetDirRelease(channels[u])

\* downloadUrl of run() in index.js: releaseUrl or nightlyUrl
downloadUrl(channel) ==
    IF isReleasePath(channel)
    THEN <<"releases">> \o channelMapListing(channel) \o <<platform, locale>>
    ELSE <<"nightly">> \o channelMapListing(channel)

\* releaseUrl of run() in the release-only variant: program.channel itself
\* is formatted into the url, not channelMap[program.channel]
releaseUrl(channel) == <<"releases", channel, platform, locale>>

\* The request a unit issues when it starts.
firstRequest(channel) ==
    CASE prog = "fetch"   -> getDownloadUrl(channel, locale, platformMap(platform))
      [] prog = "index"   -> [listing |-> downloadUrl(channel)]
      [] prog = "release" -> [listing |-> releaseUrl(channel)]

ChannelLists(pool, n) == UNION {[1..k -> pool] : k \in 1..n}

Init ==
    /\ prog \in {"fetch", "index", "release"}
    /\ platform \in Platforms
    /\ locale \in Locales
    /\ \/ prog = "fetch" /\ channels \in ChannelLists(ChannelPool, MaxChannels)
       \/ prog = "index" /\ channels \in ChannelLists(KnownChannels, 1)
       \/ prog = "release" /\ channels \in ChannelLists(ReleaseChannels, 1)
    /\ unit = [u \in Units |-> NewUnit(firstRequest(channels[u]))]
    /\ \E prior \in {Absent, Old} : disk = [d \in {TargetOf(u) : u \in Units} |-> prior]
    /\ aggregate = "none"
    /\ proc = "running"

\* temp.track(): at process exit every file and directory made through
\* temp is removed; the name temp.path() hands out is not tracked.
ExitCleanup(units) ==
    [u \in DOMAIN units |->
        [units[u] EXCEPT
            !.tmp = IF prog = "fetch" /\ @ = "exists" THEN "removed" ELSE @,
            !.tmpDir = IF @ = "exists" THEN "removed" ELSE @]]

\* A callback of unit u throws: nothing catches it, node prints the error
\* and the process ends, running its exit handlers; no callback of any
\* unit runs afterwards.
Throws(u, r) ==
    /\ unit' = ExitCleanup([unit EXCEPT ![u] = [r EXCEPT !.pc = "threw"]])
    /\ proc' = "crashed"

Returns(u, r) ==
    /\ unit' = [unit EXCEPT ![u] = r]
    /\ proc' = proc

\* res.headers.location: the artifact the resolver redirects to; its path
\* basename becomes the file name.
Locations == {ReleaseTar}

----------------------------------------------------------------------------
(* fetch.js                                                                *)

\* dfd.reject(err) / dfd.resolve(): a settled promise stays as it is
reject(r) == [r EXCEPT !.promise = IF @ = "pending" THEN "rejected" ELSE @]
resolve(r) == [r EXCEPT !.promise = IF @ = "pending" THEN "resolved" ELSE @]

\* The callback of request.get(options, ...) in start().
\* "throw" stands for the two throw statements, "reject" for dfd.reject,
\* "download" for the second request.
resolverVerdict(err, status, hasLocation) ==
    IF err THEN "reject"
    ELSE IF status # Redirect THEN "throw"
    ELSE IF ~hasLocation THEN "throw"
    ELSE "download"

ResolverResponse(u) ==
    /\ prog = "fetch" /\ proc = "running" /\ unit[u].pc = "resolving"
    /\ \E err \in BOOLEAN, status \in StatusCodes, hasLocation \in BOOLEAN,
          target \in Locations :
          LET r == unit[u]
              verdict == resolverVerdict(err, status, hasLocation)
          IN  CASE verdict = "reject" ->
                     Returns(u, reject([r EXCEPT !.pc = "done", !.fail = "request"]))
                [] verdict = "throw" ->
                     Throws(u, [r EXCEPT !.fail = IF status # Redirect
                                                  THEN "status" ELSE "location"])
                [] verdict = "download" ->
                     \* temp.createWriteStream, request(targetUrl) ... .pipe
                     Returns(u, [r EXCEPT !.pc = "downloading",
                                          !.filename = target,
                                          !.tmp = "exists",
                                          !.reqs = Append(@, target)])
    /\ UNCHANGED <<prog, channels, platform, locale, disk, aggregate>>

\* onerror that rejects but leaves the unit waiting for 'end'
onerror_stillDownloading(r) == reject([r EXCEPT !.fail = "transport"])

\* .on('error', ...) of the artifact request
onerror(r) == reject([r EXCEPT !.pc = "done", !.fail = "transport"])

\* DownloadError that also removes the install target
DownloadError_clearsTarget(u) ==
    /\ prog = "fetch" /\ proc = "running" /\ unit[u].pc = "downloading"
    /\ Returns(u, onerror(unit[u]))
    /\ disk' = [disk EXCEPT ![TargetOf(u)] = rimraf(@, u)]
    /\ UNCHANGED <<prog, channels, platform, locale, aggregate>>

DownloadError(u) ==
    /\ prog = "fetch" /\ proc = "running" /\ unit[u].pc = "downloading"
    /\ Returns(u, onerror(unit[u]))
    /\ UNCHANGED <<prog, channels, platform, locale, disk, aggregate>>

\* clearTarget with its two statements exchanged
clearTarget_mkdirpFirst == <<"mkdirp target", "rimraf target">>

\* The first two statements of ondownload: rimraf.sync, mkdirp.sync
clearTarget == <<"rimraf target", "mkdirp target">>

\* movedInto that renames the file onto the directory, without its name
movedInto_noName(c, u, name) == put(c, "file", u, <<>>)

\* fs.renameSync(src, path.join(installdir, filename))
movedInto(c, u, name) == put(c, "file", u, name)

\* .on('end', ondownload): the response has been read to its end; whether
\* the write stream has put every byte into the file by then is not
\* decided by the program (flushed).
DownloadEnd(u) ==
    /\ prog = "fetch" /\ proc = "running" /\ unit[u].pc = "downloading"
    /\ \E flushed \in BOOLEAN, renameOk \in BOOLEAN :
          LET d == TargetOf(u)
              r == [unit[u] EXCEPT !.written = flushed, !.log = @ \o clearTarget,
                                   !.found = foundAt(disk[d])]
              cleared == mkdirp(rimraf(disk[d], u), u)
          IN  IF ~isLinux(platform)
              THEN IF renameOk
                   THEN /\ disk' = [disk EXCEPT ![d] = movedInto(cleared, u, r.filename)]
                        /\ Returns(u, resolve([r EXCEPT !.pc = "done",
                                                        !.tmp = "moved",
                                                        !.log = Append(@, "move file to target"),
                                                        !.printed = @ \cup {"success"}]))
                   ELSE /\ disk' = [disk EXCEPT ![d] = cleared]
                        /\ Throws(u, [r EXCEPT !.fail = "rename"])
              ELSE /\ disk' = [disk EXCEPT ![d] = put(cleared, "extracting", u, r.filename)]
                   /\ Returns(u, [r EXCEPT !.pc = "extracting",
                                           !.log = Append(@, "extract to target")])
    /\ UNCHANGED <<prog, channels, platform, locale, aggregate>>

\* The callback of decompress ... .run(): the archive was unpacked into the
\* install target itself, so a failure leaves there what had been unpacked.
ExtractDone(u) ==
    /\ prog = "fetch" /\ proc = "running" /\ unit[u].pc = "extracting"
    /\ LET r == unit[u]
           d == TargetOf(u)
           mine == disk[d].st = "extracting" /\ disk[d].by = u
       IN  \E err \in BOOLEAN, left \in {"empty", "partial"} :
              IF err
              THEN /\ disk' = IF mine THEN [disk EXCEPT ![d] = put(@, left, u, <<>>)]
                              ELSE disk
                   /\ Returns(u, reject([r EXCEPT !.pc = "done", !.fail = "extract"]))
              ELSE /\ disk' = [disk EXCEPT ![d] = IF mine THEN put(@, "full", u, r.filename)
                                                  ELSE put(@, "mixed", u, r.filename)]
                   /\ Returns(u, resolve([r EXCEPT !.pc = "done",
                                                   !.log = Append(@, "extracted"),
                                                   !.printed = @ \cup {"success"}]))
    /\ UNCHANGED <<prog, channels, platform, locale, aggregate>>

\* .pipe(writeStream): the write stream finishes after the response ended
WriteFinish(u) ==
    /\ prog = "fetch" /\ proc = "running"
    /\ unit[u].pc \in {"extracting", "done"}
    /\ unit[u].tmp # "none" /\ ~unit[u].written /\ unit[u].fail # "transport"
    /\ Returns(u, [unit[u] EXCEPT !.written = TRUE])
    /\ UNCHANGED <<prog, channels, platform, locale, disk, aggregate>>

\* P.all(downloads).then(...): every promise is resolved
AllThen ==
    /\ prog = "fetch" /\ proc = "running" /\ aggregate = "none"
    /\ \A u \in Units : unit[u].promise = "resolved"
    /\ aggregate' = "All done."
    /\ UNCHANGED <<prog, channels, platform, locale, unit, disk, proc>>

\* P.all(downloads).catch(...): some promise is rejected
AllCatch ==
    /\ prog = "fetch" /\ proc = "running" /\ aggregate = "none"
    /\ \E u \in Units : unit[u].promise = "rejected"
    /\ aggregate' = "error"
    /\ UNCHANGED <<prog, channels, platform, locale, disk, unit, proc>>

----------------------------------------------------------------------------
(* index.js: run, ondownload and oncomplete are the same in lines 1-170    *)
(* and in the release-only variant; only the selector differs.            *)

\* The callback of request.get(downloadUrl, ...) in run().
ListingResponse(u) ==
    /\ prog \in ListingProgs /\ proc = "running" /\ unit[u].pc = "resolving"
    /\ \E err \in BOOLEAN, status \in StatusCodes, body \in Listings :
          LET r == unit[u]
              sel == IF prog = "release"
                     THEN parseFilenameRelease(body, platform)
                     ELSE parseFilename(body, channels[u], platform, locale)
          IN  IF err
              THEN Returns(u, [r EXCEPT !.pc = "done", !.fail = "request",
                                        !.printed = @ \cup {"error"}])
              ELSE IF status # StatusOK
              THEN Returns(u, [r EXCEPT !.pc = "done", !.fail = "status",
                                        !.printed = @ \cup {"error"}])
              ELSE IF sel.threw # ""
              THEN Throws(u, [r EXCEPT !.fail = sel.threw, !.listing = body])
              ELSE \* request(url) ... .pipe(fs.createWriteStream(program.tmpFile))
                   Returns(u, [r EXCEPT !.pc = "downloading",
                                        !.listing = body,
                                        !.filename = sel.value,
                                        !.tmp = "exists",
                                        !.reqs = Append(@, sel.value)])
    /\ UNCHANGED <<prog, channels, platform, locale, disk, aggregate>>

\* .on('error', function(err) { console.log(err) })
onerrorListing(r) ==
    [r EXCEPT !.pc = "done", !.fail = "transport", !.printed = @ \cup {"error"}]

ListingDownloadError(u) ==
    /\ prog \in ListingProgs /\ proc = "running" /\ unit[u].pc = "downloading"
    /\ Returns(u, onerrorListing(unit[u]))
    /\ UNCHANGED <<prog, channels, platform, locale, disk, aggregate>>

\* .on('end', ondownload).  On mac and windows fs.renameSync(tmpFile,
\* installDir) names the directory mkdirp has just made: renaming a file
\* onto a directory fails, and the exception is not caught.
ListingDownloadEnd(u) ==
    /\ prog \in ListingProgs /\ proc = "running" /\ unit[u].pc = "downloading"
    /\ \E flushed \in BOOLEAN :
          LET r == [unit[u] EXCEPT !.written = flushed]
          IN  IF ~isLinux(platform)
              THEN Throws(u, [r EXCEPT !.fail = "rename"])
              ELSE Returns(u, [r EXCEPT !.pc = "extracting",
                                        !.tmpDir = "exists",
                                        !.log = Append(@, "extract to staging")])
    /\ UNCHANGED <<prog, channels, platform, locale, disk, aggregate>>

\* onExtractError that clears the target before it looks at err
onExtractError_removesFirst(c, u) == rimraf(c, u)

\* The install target after oncomplete(err) with an error: `if (err) throw
\* err` is its first statement, nothing has been done to the target.
onExtractError(c, u) == c

\* The statements of oncomplete after its mkdirp calls, in order.
oncompleteSteps ==
    <<"rimraf target", "move staging to target", "unlink tmp">>

\* oncomplete(err), the callback of decompress ... .run().  renameSync of
\* the staging directory fails when it is on another file system.
ListingExtractDone(u) ==
    /\ prog \in ListingProgs /\ proc = "running" /\ unit[u].pc = "extracting"
    /\ \E err \in BOOLEAN, renameOk \in BOOLEAN :
          LET r == unit[u]
              d == TargetOf(u)
              done == [r EXCEPT !.log = Append(@, "extracted")]
          IN  IF err
              THEN /\ Throws(u, [r EXCEPT !.fail = "extract"])
                   /\ disk' = [disk EXCEPT ![d] = onExtractError(@, u)]
              ELSE IF ~renameOk
              THEN /\ Throws(u, [done EXCEPT !.fail = "rename",
                                             !.found = foundAt(disk[d]),
                                             !.log = Append(@, oncompleteSteps[1])])
                   /\ disk' = [disk EXCEPT ![d] = rimraf(@, u)]
              ELSE /\ Returns(u, [done EXCEPT !.pc = "done",
                                              !.tmpDir = "moved",
                                              !.tmp = "removed",
                                              !.found = foundAt(disk[d]),
                                              !.log = @ \o oncompleteSteps,
                                              !.printed = @ \cup {"success"}])
                   /\ disk' = [disk EXCEPT ![d] = put(rimraf(@, u), "full", u, r.filename)]
    /\ UNCHANGED <<prog, channels, platform, locale, aggregate>>

\* .pipe(fs.createWriteStream(program.tmpFile))
ListingWriteFinish(u) ==
    /\ prog \in ListingProgs /\ proc = "running"
    /\ unit[u].pc \in {"extracting", "done"}
    /\ unit[u].tmp # "none" /\ ~unit[u].written /\ unit[u].fail # "transport"
    /\ Returns(u, [unit[u] EXCEPT !.written = TRUE])
    /\ UNCHANGED <<prog, channels, platform, locale, disk, aggregate>>

----------------------------------------------------------------------------
(* The process                                                             *)

\* Nothing is left on the event loop: node exits.
Idle(r) == r.pc = "done" /\ (r.tmp = "none" \/ r.written \/ r.fail = "transport")

ProcessExit ==
    /\ proc = "running"
    /\ \A u \in Units : Idle(unit[u])
    /\ prog = "fetch" => aggregate # "none"
    /\ unit' = ExitCleanup(unit)
    /\ proc' = "exited"
    /\ UNCHANGED <<prog, channels, platform, locale, disk, aggregate>>

Next ==
    \/ \E u \in Units : ResolverResponse(u)
    \/ \E u \in Units : DownloadError(u)
    \/ \E u \in Units : DownloadEnd(u)
    \/ \E u \in Units : ExtractDone(u)
    \/ \E u \in Units : WriteFinish(u)
    \/ \E u \in Units : ListingResponse(u)
    \/ \E u \in Units : ListingDownloadError(u)
    \/ \E u \in Units : ListingDownloadEnd(u)
    \/ \E u \in Units : ListingExtractDone(u)
    \/ \E u \in Units : ListingWriteFinish(u)
    \/ AllThen
    \/ AllCatch
    \/ ProcessExit

Spec == Init /\ [][Next]_vars

----------------------------------------------------------------------------
(* Properties                                                              *)

Range(f) == {f[i] : i \in DOMAIN f}

\* The unit met a failure (a rejected request, a bad status, a missing
\* Location, a transport error, an extraction or file-system error).
Failed(r) == r.fail # ""

\* The unit has run to its end: no callback of it is left, or one threw.
Completed(r) == r.pc \in {"done", "threw"}

\* The unit reported a failure: dfd.reject in fetch.js, console in index.js.
ReportedFailure(r) == r.promise = "rejected" \/ "error" \in r.printed

\* The Installer (ondownload) has started for the unit.
InstallerStarted(r) == r.log # <<>>

\* Steps that create or fill the install target.
Populating ==
    {"mkdirp target", "extract to target", "move file to target",
     "move staging to target"}

\* C1: a failure of one unit neither cancels nor blocks the other units;
\* stated on finished runs: once the process has ended, every unit other
\* than a failed one has run its chain to its own outcome.
C1_FailureLeavesOthersRunning ==
    proc # "running" =>
        \A u, v \in Units : (u # v /\ Failed(unit[u])) => unit[v].pc = "done"

\* C2: no two units whose Installer runs have the same install target.
C2_TargetsDisjoint ==
    \A u, v \in Units :
        (u # v /\ InstallerStarted(unit[u]) /\ InstallerStarted(unit[v]))
            => TargetOf(u) # TargetOf(v)

\* C3: once a unit has completed, on any exit path, its temporary download
\* file no longer exists.
C3_TmpGoneWhenCompleted ==
    \A u \in Units : Completed(unit[u]) => unit[u].tmp # "exists"

\* C4: every started unit reaches a terminal outcome; stated on finished
\* runs: once the process has ended, the promise of every unit of
\* fetch.js is resolved or rejected.
C4_EveryPromiseSettled ==
    (prog = "fetch" /\ proc # "running") =>
        \A u \in Units : unit[u].promise \in {"resolved", "rejected"}

\* C5: the aggregate report is printed only after all units have
\* completed, each with a success or a failure reported.
C5_ReportAfterAllUnits ==
    aggregate # "none" =>
        \A u \in Units : unit[u].promise \in {"resolved", "rejected"}

\* C6: in the steps of a unit, every step that creates or fills the install
\* target comes after the removal of the target and none comes before it;
\* the temporary file is unlinked only after extraction has finished, is
\* there while the unit extracts, and is gone from its place in a running
\* process only when it was moved or its extraction has finished.
C6_RemoveThenPopulate ==
    \A u \in Units :
        LET r == unit[u]
            log == r.log
        IN  /\ \A j \in DOMAIN log :
                  log[j] \in Populating =>
                      /\ \E i \in 1..(j - 1) : log[i] = "rimraf target"
                      /\ \A k \in (j + 1)..Len(log) : log[k] # "rimraf target"
            /\ \A j \in DOMAIN log :
                  log[j] = "unlink tmp" => \E i \in 1..(j - 1) : log[i] = "extracted"
            /\ (proc = "running" /\ r.pc = "extracting") => r.tmp = "exists"
            /\ (proc = "running" /\ r.tmp \in {"moved", "removed"}) =>
                  \E i \in DOMAIN log : log[i] \in {"extracted", "move file to target"}

\* C6 witness: a unit of fetch.js has cleared its target, unpacked the
\* archive into it and finished.
C6_Witness ==
    \E u \in Units :
        /\ prog = "fetch" /\ unit[u].pc = "done"
        /\ unit[u].log = clearTarget \o <<"extract to target", "extracted">>

\* C7: the Installer starts only when every byte of the response has been
\* written to the temporary file.
C7_InstallAfterWrite ==
    \A u \in Units : InstallerStarted(unit[u]) => unit[u].written

C9_BadRedirectRejects ==
    \A u \in Units :
        (prog = "fetch" /\ unit[u].fail \in {"status", "location"}) =>
            /\ unit[u].promise = "rejected"
            /\ unit[u].reqs = <<>>

\* C10: the Filename Selector returns one file name of the listing or
\* raises an error: every artifact request of index.js names an entry of
\* the listing it was selected from.
C10_OneFilenameOrError ==
    \A u \in Units :
        prog = "index" =>
            \A i \in DOMAIN unit[u].reqs : unit[u].reqs[i] \in Range(unit[u].listing)

\* The listing hrefs that end with the platform's extension, contain the
\* platform and the locale, and do not contain "sdk".
Qualifying(body, p, l) ==
    {h \in Range(body) :
        /\ EndsWith(h, extensionMap(p))
        /\ Contains(h, PlatformChars(p))
        /\ Contains(h, LocaleChars(l))
        /\ ~Contains(h, Sdk)}

\* C11: for nightly and aurora the selected file name never contains "sdk",
\* and when some listing href qualifies it is the last of the qualifying
\* hrefs in string order.
C11_NightlyTakesLastQualifying ==
    \A u \in Units :
        (prog = "index" /\ ~isReleasePath(channels[u]) /\ unit[u].reqs # <<>>) =>
            LET q == Qualifying(unit[u].listing, platform, locale)
                f == unit[u].filename
            IN  /\ ~Contains(f, Sdk)
                /\ q # {} => (f \in q /\ \A h \in q : ~StrLess(f, h))

\* C11 witness: a nightly listing holds an older build and an sdk archive
\* that sorts after it; the older build is requested.
C11_Witness ==
    \E u \in Units :
        /\ prog = "index" /\ channels[u] = "nightly"
        /\ NightlySdk \in Range(unit[u].listing)
        /\ unit[u].reqs = <<NightlyOld>>
        /\ StrLess(NightlyOld, NightlySdk)

\* The listing entries that match the platform's extension pattern, i.e.
\* end with the extension.
ExtensionMatches(body, p) ==
    SelectSeq(body, LAMBDA h : EndsWith(h, extensionMap(p)))

\* The listing came back with status 200 and the selector was run on it.
SelectorRan(r) == r.pc # "resolving" /\ r.fail \notin {"request", "status"}

\* No unit has touched the install target since the program started.
Untouched(d) == disk[d].by = 0

\* C12: for a standard channel, one listing href matching the extension
\* pattern is returned and requested; none makes the selector fail with
\* 'No download available', two or more with 'Multiple possible
\* downloads', and then nothing is requested and the target is untouched.
C12_StandardChannelStrict ==
    \A u \in Units :
        (prog \in ListingProgs /\ isReleasePath(channels[u]) /\ SelectorRan(unit[u])) =>
            LET m == ExtensionMatches(unit[u].listing, platform)
                failedWith(msg) == /\ unit[u].fail = msg
                                   /\ unit[u].reqs = <<>>
                                   /\ Untouched(TargetOf(u))
            IN  /\ Len(m) = 1 => unit[u].reqs = <<m[1]>>
                /\ Len(m) = 0 => failedWith("No download available")
                /\ Len(m) > 1 => failedWith("Multiple possible downloads")

\* C12 holds of lines 1-170 alone.
C12_HoldsOfIndex ==
    prog = "index" => C12_StandardChannelStrict

\* C13: every file name the selector returns ends with the extension of
\* the requested platform.
C13_ReturnedNameEndsWithExtension ==
    \A u \in Units :
        prog \in ListingProgs =>
            \A i \in DOMAIN unit[u].reqs :
                unit[u].reqs[i] \in Hrefs =>
                    EndsWith(unit[u].reqs[i], extensionMap(platform))

\* The unit printed its success message (and, in fetch.js, resolved).
Succeeded(r) == "success" \in r.printed

\* No other unit of the run has the unit's install target.
Alone(u) == \A v \in Units : v # u => TargetOf(v) # TargetOf(u)

\* C14: when a unit whose Installer ran has finished, its install target
\* (as the unit left it) is fully populated with the new artifact and the
\* unit succeeded, or is removed or empty and the unit failed; it is never
\* partially populated.
C14_FullOrRemoved ==
    \A u \in Units :
        LET r == unit[u]
            c == disk[TargetOf(u)]
        IN  (Completed(r) /\ InstallerStarted(r) /\ c.by = u) =>
                \/ Succeeded(r) /\ c.st \in {"full", "file"} /\ c.name = r.filename
                \/ Failed(r) /\ c.st \in {"absent", "empty"}

\* C15: on mac and windows a unit that succeeded has left the fetched
\* file, not unpacked, in installRoot/channelLocalName/locale under its
\* resolved name (as long as no other unit has touched that directory).
C15_OpaqueBinaryMoved ==
    \A u \in Units :
        LET r == unit[u]
            d == TargetOf(u)
        IN  (~isLinux(platform) /\ Succeeded(r) /\ disk[d].by = u) =>
                /\ d = <<InstallRoot>> \o channelMap(channels[u], TRUE) \o <<locale>>
                /\ disk[d].st = "file"
                /\ disk[d].name = r.filename
                /\ r.filename \in Locations
                /\ r.tmp = "moved"
                /\ "extract to target" \notin Range(r.log)

\* C15 witness: fetch.js on mac has moved the download into the target.
C15_Witness ==
    \E u \in Units :
        /\ prog = "fetch" /\ platform = "mac" /\ Succeeded(unit[u])
        /\ disk[TargetOf(u)].st = "file" /\ disk[TargetOf(u)].by = u

\* C16: a run that finds the install of an earlier run for the same
\* channel and locale, and succeeds, leaves one target that holds its own
\* artifact and nothing of the earlier install.
C16_SecondRunReplaces ==
    \A u \in Units :
        LET r == unit[u]
            c == disk[TargetOf(u)]
        IN  (Alone(u) /\ r.found = "old" /\ Succeeded(r)) =>
                /\ c.st \in {"full", "file"}
                /\ c.by = u
                /\ c.name = r.filename
                /\ ~c.stale

\* C16 witness: a unit found an earlier install, replaced it and succeeded.
C16_Witness ==
    \E u \in Units :
        /\ Alone(u) /\ unit[u].found = "old" /\ Succeeded(unit[u])
        /\ disk[TargetOf(u)].st = "full"

C18_TargetKeptUntilDownloadEnd ==
    \A d \in DOMAIN disk :
        (prog = "fetch" /\ \A u \in Units : TargetOf(u) = d => ~InstallerStarted(unit[u]))
            => (Untouched(d) /\ disk[d] \in {Old, Absent})

\* C18 witness: the only unit failed during resolution, the process has
\* ended and the earlier install is still there.
C18_Witness ==
    \E u \in Units :
        /\ prog = "fetch" /\ Alone(u) /\ proc # "running"
        /\ unit[u].fail \in {"request", "status", "location"}
        /\ disk[TargetOf(u)] = Old

\* C19: in the listing programs on linux the archive is unpacked into a
\* staging directory, the install target is removed only after extraction
\* has succeeded, and an extraction error leaves the target as it was.
C19_StagedExtraction ==
    \A u \in Units :
        LET r == unit[u]
            d == TargetOf(u)
        IN  prog \in ListingProgs =>
                /\ r.pc = "extracting" => (Untouched(d) /\ r.tmpDir # "none")
                /\ r.fail = "extract" => (Untouched(d) /\ disk[d] \in {Old, Absent})
                /\ \A j \in DOMAIN r.log :
                      r.log[j] = "rimraf target" =>
                          \E i \in 1..(j - 1) : r.log[i] = "extracted"

\* C19 witness: extraction failed and the earlier install is still there.
C19_Witness ==
    \E u \in Units :
        /\ prog \in ListingProgs /\ unit[u].fail = "extract"
        /\ disk[TargetOf(u)] = Old

====
